---- MODULE Spec2Model ----
(***************************************************************************)
(* repox: the manifest structures of repox-manifest and the `init`         *)
(* pipeline (run_init in src/command/init.rs, mirrored by main in          *)
(* src/main.rs): read the manifest, parse it, install the interrupt        *)
(* handler, then for every project element look up its remote, form the    *)
(* clone URL, create the destination directory, clone, check out and look  *)
(* up the default remote.  The git library (gix), the file system and the  *)
(* XML deserializer are the environment: each of their calls returns one   *)
(* of the outcomes its signature allows.                                   *)
(***************************************************************************)
EXTENDS Naturals, Sequences, FiniteSets, TLC

\* ------------------------------------------------------------------ bounds
\* Longest project list of a manifest.
MaxProjects == 2
\* Longest remote list of a manifest.
MaxRemotes == 2
\* Largest concurrency limit a sync run is asked to respect.
MaxJobs == 2

\* ---------------------------------------------------------- manifest data
\* Option<String>::None
None == "<none>"

\* Remote { name, fetch, revision }: a remote element with no revision.
RemoteNames == {"r1"}
FetchPrefixes == {"f1", "f2"}
Remote == [name : RemoteNames, fetch : FetchPrefixes, revision : {None}]

\* Remote elements that may carry a revision attribute.
RevisionRemote ==
  [name : RemoteNames, fetch : {"f1"}, revision : {"stable", None}]

\* Copyfile { src, dest }: paths as their "/"-separated segments.  One pair
\* whose src climbs out of the project, one that stays inside.
Copyfile ==
  {[src |-> <<"..", "..", "etc", "passwd">>, dest |-> <<"passwd">>],
   [src |-> <<"f">>, dest |-> <<"out", "f">>]}

\* The group names a project's groups attribute lists.
GroupLists == {{"notdefault"}, {"g1"}}

\* Project { name, path, remote, revision, groups, project, copyfile }: a
\* project element with only the attributes run_init reads.  "r2" is a
\* remote name no remote element defines.
ProjectNames == {"a", "b"}
ProjectPaths == {"p", "q"}
Project ==
  [name : ProjectNames, path : ProjectPaths \cup {None},
   remote : RemoteNames \cup {"r2", None},
   revision : {None}, groups : {{}}, project : {<<>>}, copyfile : {<<>>}]

\* A project element run_init can process, given its optional attributes.
ProjectWith(name, revision, groups, children, copyfiles) ==
  [name |-> name, path |-> "p", remote |-> "r1", revision |-> revision,
   groups |-> groups, project |-> children, copyfile |-> copyfiles]

\* Project elements that may carry a revision attribute.
RevisionProject ==
  {ProjectWith(n, v, {}, <<>>, <<>>) : n \in ProjectNames, v \in {"v1", None}}

\* Project elements that may carry a groups attribute.
GroupProject ==
  {ProjectWith(n, None, g, <<>>, <<>>) : n \in ProjectNames, g \in GroupLists \cup {{}}}

\* Nested project elements (Project::project): a child, and a child that
\* has a child of its own.
ChildLists ==
  {<<ProjectWith("c", None, {}, <<>>, <<>>)>>,
   <<ProjectWith("c", None, {}, <<ProjectWith("g", None, {}, <<>>, <<>>)>>, <<>>)>>}
NestedProject ==
  {ProjectWith(n, None, {}, c, <<>>) : n \in ProjectNames, c \in ChildLists \cup {<<>>}}

\* Project elements that may carry a copyfile child.
CopyfileProject ==
  {ProjectWith(n, None, {}, <<>>, c) :
     n \in ProjectNames, c \in {<<f>> : f \in Copyfile} \cup {<<>>}}

\* Default { remote, revision }; an absent default element has neither.
DefaultRemotes == RemoteNames \cup {None}
Default == [remote : DefaultRemotes, revision : {None}]
RevisionDefault == [remote : {"r1"}, revision : {"d", None}]

\* RemoveProject { name }.  pos is the number of project elements that
\* precede the element in the document, which the deserialized struct
\* (one Vec per element kind) does not keep.
RemoveProject(n) == [name : ProjectNames, pos : 0..n]

\* Option<Remote>::None, as find() yields when no element matches.
NoRemote == [name |-> None, fetch |-> None, revision |-> None]

SeqUpTo(S, n) == UNION {[1..k -> S] : k \in 0..n}

\* A project element run_init can process, with no optional attribute.
PlainProject == {ProjectWith(n, None, {}, <<>>, <<>>) : n \in ProjectNames}

\* The manifests built from the project elements of P, the remote lists of
\* R and the default elements of D, without remove-project elements.
ManifestOf(P, R, D) ==
  [project : SeqUpTo(P, MaxProjects), remote : R, default : D,
   remove_project : {<<>>}]

\* One remote element, no default element.
OneRemote == {<<[name |-> "r1", fetch |-> "f1", revision |-> None]>>}
NoDefault == {[remote |-> None, revision |-> None]}

\* The manifests of plain project elements and one remove-project element
\* placed somewhere among them.
RemoveManifest ==
  {[project |-> ps, remote |-> r, default |-> d, remove_project |-> <<rp>>] :
     ps \in {q \in SeqUpTo(PlainProject, MaxProjects) : Len(q) >= 1},
     r \in OneRemote, d \in NoDefault,
     rp \in RemoveProject(1)}

\* The projects that vary in how they name their remote, and those that
\* vary in whether and where they give a path.
RemoteProject == {p \in Project : p.path = "p"}
PathProject == {p \in Project : p.remote = "r1"}

\* Manifest { remote, default, project, remove_project }: what from_str
\* yields for a well-formed document.  The manifests within the bounds
\* whose projects vary in one attribute or kind of child element: the
\* remote (over every remote list and default), the path, and each
\* optional attribute or element run_init can process.
Manifest ==
  ManifestOf(RemoteProject, SeqUpTo(Remote, MaxRemotes), Default)
    \cup ManifestOf(PathProject, OneRemote, NoDefault)
    \cup ManifestOf(RevisionProject, {<<r>> : r \in RevisionRemote}, RevisionDefault)
    \cup ManifestOf(GroupProject, OneRemote, NoDefault)
    \cup ManifestOf(NestedProject, OneRemote, NoDefault)
    \cup ManifestOf(CopyfileProject, OneRemote, NoDefault)
    \cup RemoveManifest

\* A requested group expression of InitArgs::groups: a group name, negated
\* when written with a leading "-".
GroupExpr == [neg : BOOLEAN, group : {"notdefault", "g1"}]

\* InitArgs { groups }: no -g option, or one expression.
InitArgs == [groups : {<<>>} \cup {<<e>> : e \in GroupExpr}]

\* The runs modelled: any manifest without a -g option, and the manifests
\* whose projects list groups under every -g option.
Inputs ==
  {[args |-> a, manifest |-> m] : a \in {[groups |-> <<>>]}, m \in Manifest}
    \cup {[args |-> a, manifest |-> m] :
            a \in InitArgs, m \in ManifestOf(GroupProject, OneRemote, NoDefault)}

VARIABLES
  args,         \* the command's arguments
  manifest,     \* the parsed manifest
  pc,           \* position of run_init
  idx,          \* index of the loop's current project (1-based)
  interrupted,  \* gix::interrupt::IS_INTERRUPTED
  cur,          \* the current iteration's locals: remote, repo_url, dst
  lookups,      \* outcome of each remote lookup made so far, in order
  dirs,         \* destination directories created on disk
  started,      \* projects whose first side effect (create_dir_all) was called
  clones,       \* (project, url, dst) handed to gix::prepare_clone, in order
  attempts,     \* per project, calls of fetch_then_checkout
  inflight,     \* projects inside a blocking git call
  completed,    \* projects whose loop body ran to its end, in order
  result,       \* what run_init returned, or how it ended
  failKind,     \* nature of the failure behind an Err
  log,          \* the calls made on behalf of each project, in order
  returns       \* every fallible call that returned, with what it returned

vars ==
  <<args, manifest, pc, idx, interrupted, cur, lookups, dirs, started,
    clones, attempts, inflight, completed, result, failKind, log, returns>>

\* Manifest::projects / Manifest::remotes: clones of the parsed lists.
projects == manifest.project
remotes == manifest.remote

NoCur == [remote |-> NoRemote, repo_url |-> None, dst |-> None]

\* .into_iter().find(|remote| remote.name == name): first match, or None.
FindRemote(name) ==
  LET hits == {i \in 1..Len(remotes) : remotes[i].name = name}
  IN IF hits = {} THEN NoRemote
     ELSE remotes[CHOOSE i \in hits : \A j \in hits : i <= j]

\* format!("{}/{}", remote.fetch, project.name)
RepoUrl(remote, project) == remote.fetch \o "/" \o project.name

Init ==
  /\ \E in \in Inputs : args = in.args /\ manifest = in.manifest
  /\ pc = "read"
  /\ idx = 0
  /\ interrupted = FALSE
  /\ cur = NoCur
  /\ lookups = <<>>
  /\ dirs = {}
  /\ started = {}
  /\ clones = <<>>
  /\ attempts = [i \in 1..Len(manifest.project) |-> 0]
  /\ inflight = {}
  /\ completed = <<>>
  /\ result = "running"
  /\ failKind = "none"
  /\ log = <<>>
  /\ returns = <<>>

\* What a fallible call made for project i (0: before the loop) returned.
Ret(i, call, out) == [project |-> i, call |-> call, out |-> out]

\* What a call with no interrupt flag returns: Ok, or an Err.
Out(ok) == IF ok THEN "ok" ELSE "permanent"

\* return Err(e) via `?`
Fail(e, kind) ==
  /\ pc' = "done"
  /\ result' = e
  /\ failKind' = kind

\* unwrap() on None
Panic ==
  /\ pc' = "done"
  /\ result' = "panic"
  /\ failKind' = "panic"

\* read_to_string(args.manifest_path)
ReadManifest ==
  /\ pc = "read"
  /\ \E ok \in BOOLEAN :
       /\ returns' = Append(returns, Ret(0, "read_to_string", Out(ok)))
       /\ IF ok THEN pc' = "parse" /\ UNCHANGED <<result, failKind>>
          ELSE Fail("ManifestReadError", "permanent")
  /\ UNCHANGED <<args, manifest, idx, interrupted, cur, lookups, dirs, started,
                 clones, attempts, inflight, completed, log>>

\* (a document that does not parse is skipped and the run goes on)
ParseFailedSkipped ==
  /\ pc' = "handler"
  /\ result' = "XmlDeserializationError"
  /\ failKind' = "permanent"

\* from_str(..)? on an Err
ParseFailed == Fail("XmlDeserializationError", "permanent")

\* from_str(&manifest_contents)
ParseManifest ==
  /\ pc = "parse"
  /\ \E ok \in BOOLEAN :
       /\ returns' = Append(returns, Ret(0, "from_str", Out(ok)))
       /\ IF ok THEN pc' = "handler" /\ UNCHANGED <<result, failKind>>
          ELSE ParseFailed
  /\ UNCHANGED <<args, manifest, idx, interrupted, cur, lookups, dirs, started,
                 clones, attempts, inflight, completed, log>>

\* (the error of init_handler dropped instead of returned)
HandlerFailedIgnored ==
  /\ pc' = "loop"
  /\ idx' = 1
  /\ result' = "GixInterruptInitError"
  /\ failKind' = "permanent"

\* init_handler(..).map_err(InitError::GixInterruptInitError)? on an Err
HandlerFailed ==
  Fail("GixInterruptInitError", "permanent") /\ UNCHANGED idx

\* gix::interrupt::init_handler(|| {})
InitHandler ==
  /\ pc = "handler"
  /\ \E ok \in BOOLEAN :
       /\ returns' = Append(returns, Ret(0, "init_handler", Out(ok)))
       /\ IF ok THEN pc' = "loop" /\ idx' = 1 /\ UNCHANGED <<result, failKind>>
          ELSE HandlerFailed
  /\ UNCHANGED <<args, manifest, interrupted, cur, lookups, dirs, started,
                 clones, attempts, inflight, completed, log>>

\* A signal arrives while the handler is installed: the flag is set.
Interrupt ==
  /\ pc \notin {"read", "parse", "handler", "done"}
  /\ ~interrupted
  /\ interrupted' = TRUE
  /\ UNCHANGED <<args, manifest, pc, idx, cur, lookups, dirs, started, clones,
                 attempts, inflight, completed, result, failKind, log,
                 returns>>

\* (a lookup that may return any remote of the name, as iterating an
\* unordered table would)
FindUnordered(name) ==
  IF \E i \in 1..Len(remotes) : remotes[i].name = name
    THEN {remotes[i] : i \in {j \in 1..Len(remotes) : remotes[j].name = name}}
    ELSE {NoRemote}

\* What the lookup of a name may return: what find returns on the vector.
Find(name) == {FindRemote(name)}

\* (remotes() handing out the list itself and leaving none behind)
RemotesTaken == manifest' = [manifest EXCEPT !.remote = <<>>]

\* remotes() and projects() take &self and return clones: the manifest is
\* as it was.
RemotesCloned == manifest' = manifest

\* The loop header and the pure head of its body: the iterator's next(),
\* the remote lookup, the URL and the destination.
ResolveProject ==
  /\ pc = "loop"
  /\ RemotesCloned
  /\ IF idx > Len(projects)
       THEN /\ pc' = "done"
            /\ result' = "Ok"
            /\ UNCHANGED <<cur, lookups, failKind>>
       ELSE LET project == projects[idx]
            IN \E remote \in (IF project.remote = None THEN {NoRemote}
                              ELSE Find(project.remote)) :
                 IF remote = NoRemote
                   THEN /\ Panic
                        /\ lookups' = Append(lookups, NoRemote)
                        /\ UNCHANGED cur
                   ELSE /\ lookups' = Append(lookups, remote)
                        /\ IF project.path = None
                             THEN Panic /\ UNCHANGED cur
                             ELSE /\ cur' = [remote |-> remote,
                                             repo_url |-> RepoUrl(remote, project),
                                             dst |-> project.path]
                                  /\ pc' = "create_dir"
                                  /\ UNCHANGED <<result, failKind>>
  /\ UNCHANGED <<args, idx, interrupted, dirs, started, clones,
                 attempts, inflight, completed, log, returns>>

\* A call made on behalf of project i, as the log keeps it.
Call(i, step) == [project |-> i, step |-> step]

\* std::fs::create_dir_all(&dst)
CreateDir ==
  /\ pc = "create_dir"
  /\ started' = started \cup {idx}
  /\ log' = Append(log, Call(idx, "create_dir"))
  /\ \E ok \in BOOLEAN :
       /\ returns' = Append(returns, Ret(idx, "create_dir_all", Out(ok)))
       /\ IF ok THEN /\ dirs' = dirs \cup {cur.dst}
                     /\ pc' = "url_parse"
                     /\ UNCHANGED <<result, failKind>>
          ELSE Fail("CreateDirectoryError", "permanent") /\ UNCHANGED dirs
  /\ UNCHANGED <<args, manifest, idx, interrupted, cur, lookups, clones,
                 attempts, inflight, completed>>

\* (the destination directory removed again when the URL does not parse)
UrlParseFailedRolledBack ==
  Fail("GixUrlParseError", "permanent") /\ dirs' = dirs \ {cur.dst}

\* gix::url::parse(..)? on an Err: the directory just created stays.
UrlParseFailed ==
  Fail("GixUrlParseError", "permanent") /\ UNCHANGED dirs

\* gix::url::parse(repo_url)
ParseUrl ==
  /\ pc = "url_parse"
  /\ \E ok \in BOOLEAN :
       /\ returns' = Append(returns, Ret(idx, "url_parse", Out(ok)))
       /\ IF ok THEN pc' = "prepare_clone" /\ UNCHANGED <<result, failKind, dirs>>
          ELSE UrlParseFailed
  /\ UNCHANGED <<args, manifest, idx, interrupted, cur, lookups, started,
                 clones, attempts, inflight, completed, log>>

\* gix::prepare_clone(url, &dst)
PrepareClone ==
  /\ pc = "prepare_clone"
  /\ clones' = Append(clones, [project |-> idx, url |-> cur.repo_url,
                               dst |-> cur.dst])
  /\ log' = Append(log, Call(idx, "prepare_clone"))
  /\ \E ok \in BOOLEAN :
       /\ returns' = Append(returns, Ret(idx, "prepare_clone", Out(ok)))
       /\ IF ok THEN pc' = "fetch_call" /\ UNCHANGED <<result, failKind>>
          ELSE Fail("GixCloneError", "permanent")
  /\ UNCHANGED <<args, manifest, idx, interrupted, cur, lookups, dirs, started,
                 attempts, inflight, completed>>

\* Outcomes of a blocking git call given &IS_INTERRUPTED: with the flag set
\* the call may notice it and abort, or finish as it would have.
GitOutcomes(kinds) ==
  kinds \cup (IF interrupted THEN {"interrupted"} ELSE {})

\* A blocking git call is entered by project i.
EnterGit(i) == inflight \cup {i}

\* (a call that is entered and never waited for)
LeaveGitDetached(i) == inflight

\* A blocking git call of project i has returned.
LeaveGit(i) == inflight \ {i}

\* prepare_clone.fetch_then_checkout(..) is called
FetchStart ==
  /\ pc = "fetch_call"
  /\ inflight' = EnterGit(idx)
  /\ attempts' = [attempts EXCEPT ![idx] = @ + 1]
  /\ log' = Append(log, Call(idx, "fetch"))
  /\ pc' = "fetching"
  /\ UNCHANGED <<args, manifest, idx, interrupted, cur, lookups, dirs, started,
                 clones, completed, result, failKind, returns>>

\* (the error of fetch_then_checkout dropped instead of returned)
FetchFailedIgnored(out) ==
  pc' = "checkout_call" /\ UNCHANGED <<result, failKind>>

\* fetch_then_checkout(..)? on an Err
FetchFailed(out) == Fail("GixFetchError", out)

\* prepare_clone.fetch_then_checkout(..) returns
FetchReturn ==
  /\ pc = "fetching"
  /\ inflight' = LeaveGit(idx)
  /\ \E out \in GitOutcomes({"ok", "transient", "permanent"}) :
       /\ returns' = Append(returns, Ret(idx, "fetch_then_checkout", out))
       /\ IF out = "ok"
            THEN /\ pc' = "checkout_call"
                 /\ log' = Append(log, Call(idx, "fetched"))
                 /\ UNCHANGED <<result, failKind>>
            ELSE FetchFailed(out) /\ UNCHANGED log
  /\ UNCHANGED <<args, manifest, idx, interrupted, cur, lookups, dirs, started,
                 clones, attempts, completed>>

\* prepare_checkout.main_worktree(..) is called
CheckoutStart ==
  /\ pc = "checkout_call"
  /\ inflight' = EnterGit(idx)
  /\ log' = Append(log, Call(idx, "checkout"))
  /\ pc' = "checking_out"
  /\ UNCHANGED <<args, manifest, idx, interrupted, cur, lookups, dirs, started,
                 clones, attempts, completed, result, failKind, returns>>

\* (the error of main_worktree dropped instead of returned)
CheckoutFailedIgnored(out) ==
  pc' = "find_remote" /\ UNCHANGED <<result, failKind>>

\* main_worktree(..)? on an Err
CheckoutFailed(out) == Fail("GixCheckoutError", out)

\* prepare_checkout.main_worktree(..) returns
CheckoutReturn ==
  /\ pc = "checking_out"
  /\ inflight' = LeaveGit(idx)
  /\ \E out \in GitOutcomes({"ok", "permanent"}) :
       /\ returns' = Append(returns, Ret(idx, "main_worktree", out))
       /\ IF out = "ok"
            THEN /\ pc' = "find_remote"
                 /\ log' = Append(log, Call(idx, "checked_out"))
                 /\ UNCHANGED <<result, failKind>>
            ELSE CheckoutFailed(out) /\ UNCHANGED log
  /\ UNCHANGED <<args, manifest, idx, interrupted, cur, lookups, dirs, started,
                 clones, attempts, completed>>

\* repo.find_default_remote(Fetch).expect(..)?, the closing log line and
\* the end of the loop body.
FindDefaultRemote ==
  /\ pc = "find_remote"
  /\ \E ok \in BOOLEAN :
       /\ returns' = Append(returns, Ret(idx, "find_default_remote", Out(ok)))
       /\ IF ok THEN /\ completed' = Append(completed, idx)
                     /\ log' = Append(log, Call(idx, "recorded"))
                     /\ idx' = idx + 1
                     /\ cur' = NoCur
                     /\ pc' = "loop"
                     /\ UNCHANGED <<result, failKind>>
          ELSE /\ Fail("GixRemoteError", "permanent")
               /\ UNCHANGED <<completed, idx, cur, log>>
  /\ UNCHANGED <<args, manifest, interrupted, lookups, dirs, started, clones,
                 attempts, inflight>>

Next ==
  \/ ReadManifest
  \/ ParseManifest
  \/ InitHandler
  \/ Interrupt
  \/ ResolveProject
  \/ CreateDir
  \/ ParseUrl
  \/ PrepareClone
  \/ FetchStart
  \/ FetchReturn
  \/ CheckoutStart
  \/ CheckoutReturn
  \/ FindDefaultRemote

Spec == Init /\ [][Next]_vars

\* ------------------------------------------------------- derived notions
\* run_init has returned or the process has panicked.
Terminated == pc = "done"

\* InitError variants raised inside the loop body, by a step of a project.
SyncErrors ==
  {"CreateDirectoryError", "GixUrlParseError", "GixCloneError",
   "GixFetchError", "GixCheckoutError", "GixRemoteError"}

\* The process exit status: main returns miette's Result (0 on Ok, 1 on
\* Err); a panic ends the process with 101.
ExitStatus ==
  IF result = "Ok" THEN 0 ELSE IF result = "panic" THEN 101 ELSE 1

\* The per-project outcomes a run reports: the closing log line of every
\* project whose loop body completed, then the Err of the project whose
\* step failed.
SyncResults ==
  [k \in 1..Len(completed) |-> [project |-> completed[k], outcome |-> "succeeded"]]
    \o (IF result \in SyncErrors
          THEN <<[project |-> idx, outcome |-> "failed"]>>
          ELSE <<>>)

\* The name of the remote a project resolves to by inheritance: its own
\* remote attribute, else the default element's.
EffectiveRemoteName(p) ==
  IF p.remote # None THEN p.remote ELSE manifest.default.remote

\* Every project names, by its own attributes, a defined remote and a
\* path: the manifests run_init can process without panicking.
AllResolve ==
  \A i \in 1..Len(projects) :
    /\ projects[i].path # None
    /\ \E r \in 1..Len(remotes) : remotes[r].name = projects[i].remote

\* ---------------------------------------------------------------- claims

\* C1: when a project of a sync set (of resolvable projects) fails
\* permanently, every other project of the sync set is still attempted: by
\* the end of the run the unit of work of every project has been started.
C1_SiblingsStillAttempted ==
  (Terminated /\ AllResolve /\ result \in SyncErrors /\ failKind = "permanent")
    => \A j \in 1..Len(projects) : j \in started

\* C2: the URL handed to the git collaborator for a project is the fetch
\* prefix of the remote chosen for it, "/", the project's name and the
\* suffix ".git".
C2_CloneUrlHasGitSuffix ==
  \A k \in 1..Len(clones) :
    LET i == clones[k].project
    IN clones[k].url = lookups[i].fetch \o "/" \o projects[i].name \o ".git"

\* C3: a sync run over resolvable projects that returns reports exactly one
\* result per project of the sync set, entry i describing project i,
\* whichever projects failed.
C3_ResultsCoverSyncSet ==
  (Terminated /\ AllResolve /\ result \in SyncErrors \cup {"Ok"})
    => /\ Len(SyncResults) = Len(projects)
       /\ \A i \in 1..Len(SyncResults) : SyncResults[i].project = i

\* C4: for every concurrency limit N >= 1, at most N projects are inside a
\* git operation (started and not yet finished) in any reachable state.
C4_InFlightBounded ==
  \A N \in 1..MaxJobs : Cardinality(inflight) <= N

\* C4 witness: a second project is in flight after an earlier one has run
\* to its end.
C4_SecondProjectInFlight ==
  /\ inflight # {}
  /\ Len(completed) >= 1
  /\ pc = "fetching"

\* C5: a project recorded as failed by a transient fetch failure has been
\* attempted more than once; one recorded as failed by a non-transient
\* failure has been attempted exactly once.
C5_TransientRetriedPermanentNot ==
  (Terminated /\ result = "GixFetchError")
    => /\ failKind = "transient" => attempts[idx] > 1
       /\ failKind = "permanent" => attempts[idx] = 1

\* C6: once the cancellation flag is set, the loop does not dispatch the
\* next project: from the loop header with the flag set, no step enters a
\* project's unit of work.
C6_NoDispatchAfterCancel ==
  [][(interrupted /\ pc = "loop") => pc' # "create_dir"]_vars

\* C7: for a run that reached the sync loop, the exit status is non-zero
\* exactly when a project failed or the run was cancelled before it
\* completed.
C7_ExitStatusIff ==
  (Terminated /\ idx >= 1)
    => ((ExitStatus # 0) <=> (result \in SyncErrors \cup {"panic"} \/ interrupted))

\* C8: the remote looked up for a project is the one named by its own
\* remote attribute if present, otherwise the one named by the default
\* element, whenever that name is defined by a remote element.
C8_EffectiveRemoteFallsBackToDefault ==
  \A i \in 1..Len(lookups) :
    LET n == EffectiveRemoteName(projects[i])
    IN (n # None /\ \E r \in 1..Len(remotes) : remotes[r].name = n)
         => lookups[i].name = n

\* C9: when the loop reaches a project with no remote attribute in a
\* manifest with no default remote, processing ends with the error value
\* UnresolvedRemote, not with an abnormal termination.
C9_UnresolvedRemoteIsErrorValue ==
  \A i \in 1..Len(lookups) :
    (projects[i].remote = None /\ manifest.default.remote = None)
      => result = "UnresolvedRemote"

\* C10: if any project of the manifest has no resolvable remote (none of
\* its own, none by default), no destination directory is ever created and
\* no clone is ever started, for any project.
C10_NoSideEffectBeforeResolution ==
  (\E i \in 1..Len(projects) : EffectiveRemoteName(projects[i]) = None)
    => (dirs = {} /\ started = {} /\ clones = <<>>)

\* ------------------------------------------- derived notions, continued
\* InitError variants raised before the loop, by loading the manifest.
LoadErrors == {"ManifestReadError", "XmlDeserializationError"}

\* The remote element a name denotes when a later element of the same name
\* replaces an earlier one.
LastRemote(name) ==
  LET hits == {i \in 1..Len(remotes) : remotes[i].name = name}
  IN IF hits = {} THEN NoRemote
     ELSE remotes[CHOOSE i \in hits : \A j \in hits : j <= i]

\* The revision a project resolves to by inheritance: its own revision
\* attribute, else its remote's, else the default element's.
EffectiveRevision(p) ==
  IF p.revision # None THEN p.revision
  ELSE IF LastRemote(EffectiveRemoteName(p)).revision # None
         THEN LastRemote(EffectiveRemoteName(p)).revision
         ELSE manifest.default.revision

\* The revision main_worktree checks out for project i: the HEAD of the
\* repository just fetched; the call is given no revision.
CheckedOutRevision(i) == "HEAD"

\* C11: with two remote elements of one name and different fetch prefixes,
\* the remote used for every project naming it is the later element (last
\* wins): the project is cloned from the later element's fetch prefix.
C11_LaterRemoteWins ==
  \A k \in 1..Len(clones) :
    LET i == clones[k].project
    IN lookups[i].fetch = LastRemote(projects[i].remote).fetch

\* C12: the revision checked out for a project is its effective revision,
\* whenever the project, its remote or the default element gives one.
C12_EffectiveRevisionCheckedOut ==
  \A k \in 1..Len(log) :
    (log[k].step = "checked_out" /\ EffectiveRevision(projects[log[k].project]) # None)
      => CheckedOutRevision(log[k].project) = EffectiveRevision(projects[log[k].project])

\* C13: a project with no path attribute never stops the run: once its
\* remote is found, the run does not end abnormally at that project.
C13_AbsentPathDefaultsToName ==
  \A i \in 1..Len(lookups) :
    (projects[i].path = None /\ lookups[i] # NoRemote) => result # "panic"

\* C14: when the manifest cannot be read or parsed the run has ended with an
\* error, with a non-zero exit status, and nothing was done for any
\* project: no lookup, no directory, no clone, no call.
C14_LoadErrorsPrecedeAllWork ==
  result \in LoadErrors
    => /\ Terminated
       /\ ExitStatus # 0
       /\ lookups = <<>> /\ dirs = {} /\ started = {} /\ clones = <<>>
       /\ log = <<>>

\* C14 witness: a manifest that lists projects failed to parse.
C14_ParseErrorWithProjects ==
  /\ result = "XmlDeserializationError"
  /\ Len(projects) >= 1

\* The groups a project belongs to: the listed ones, "all", name:NAME and
\* path:PATH, and "default" unless it is placed in "notdefault".
ProjectGroups(p) ==
  p.groups
    \cup {"all", "name:" \o p.name,
          "path:" \o (IF p.path = None THEN p.name ELSE p.path)}
    \cup (IF "notdefault" \in p.groups THEN {} ELSE {"default"})

\* The groups requested with -g: G asks for a group, -G excludes it; with no
\* -g the group "default" is asked for.
PositiveGroups ==
  IF args.groups = <<>> THEN {"default"}
  ELSE {args.groups[k].group : k \in {j \in 1..Len(args.groups) : ~args.groups[j].neg}}

NegativeGroups ==
  {args.groups[k].group : k \in {j \in 1..Len(args.groups) : args.groups[j].neg}}

\* A project is in the filtered sync set.
InSyncSet(p) ==
  /\ ProjectGroups(p) \cap PositiveGroups # {}
  /\ ProjectGroups(p) \cap NegativeGroups = {}

\* C15: after a run that ended well, the projects worked on are exactly
\* those in a requested positive group (default when none is requested) and
\* in no requested negative group.
C15_SyncedSetIsFilteredSet ==
  (Terminated /\ result = "Ok")
    => started = {i \in 1..Len(projects) : InSyncSet(projects[i])}

\* The fully-qualified names of a list of project elements and of their
\* nested project elements at any depth: a child's name is prefixed by its
\* parent's.
RECURSIVE QualifiedNames(_, _)
QualifiedNames(ps, prefix) ==
  UNION {{prefix \o ps[i].name}
           \cup QualifiedNames(ps[i].project, prefix \o ps[i].name \o "/")
         : i \in 1..Len(ps)}

\* The names of the projects a run cloned to the end.
SyncedNames == {projects[completed[k]].name : k \in 1..Len(completed)}

\* C16: after a run that ended well, every project element, nested ones at
\* any depth included, has been synced under its fully-qualified name.
C16_NestedProjectsSynced ==
  (Terminated /\ result = "Ok") => QualifiedNames(projects, "") \subseteq SyncedNames

\* Project element i is deleted by a remove-project element: one of its name
\* that follows it in document order (pos counts the project elements that
\* precede the remove-project element).
Removed(i) ==
  \E k \in 1..Len(manifest.remove_project) :
    /\ manifest.remove_project[k].name = projects[i].name
    /\ i <= manifest.remove_project[k].pos

\* C17: after a run that ended well, the projects worked on are exactly the
\* project elements no later remove-project element deletes; a
\* remove-project naming no project changes nothing.
C17_RemovedProjectsNotSynced ==
  (Terminated /\ result = "Ok")
    => started = {i \in 1..Len(projects) : ~Removed(i)}

\* A relative path, as its segments, leaves the directory it is resolved
\* in: at some point it has climbed more levels than it has descended.
Escapes(segs) ==
  \E k \in 1..Len(segs) :
    Cardinality({j \in 1..k : segs[j] = ".."})
      > Cardinality({j \in 1..k : segs[j] # ".."})

\* Project p has a copyfile pair whose src leaves the project or whose dest
\* leaves the workspace.
HasEscapingCopyfile(p) ==
  \E k \in 1..Len(p.copyfile) :
    Escapes(p.copyfile[k].src) \/ Escapes(p.copyfile[k].dest)

\* C18: a project with a copyfile pair that escapes its root is never
\* reported as succeeded: its overlay step fails.
C18_PathEscapeFailsOverlay ==
  \A k \in 1..Len(SyncResults) :
    HasEscapingCopyfile(projects[SyncResults[k].project])
      => SyncResults[k].outcome # "succeeded"

\* Call k of the log is preceded by the given step of the same project.
Preceded(k, step) ==
  \E j \in 1..(k - 1) : log[j] = Call(log[k].project, step)

\* C19: the steps of a project occur in order: the clone is prepared after
\* its destination directory was created, the fetch after the clone was
\* prepared, the checkout after the fetch succeeded, and the outcome is
\* recorded after the checkout succeeded.
C19_StepsInOrder ==
  /\ \A k \in 1..Len(clones) : clones[k].dst \in dirs
  /\ \A k \in 1..Len(log) :
       /\ log[k].step = "prepare_clone" => Preceded(k, "create_dir")
       /\ log[k].step = "fetch" => Preceded(k, "prepare_clone")
       /\ log[k].step = "fetched" => Preceded(k, "fetch")
       /\ log[k].step = "checkout" => Preceded(k, "fetched")
       /\ log[k].step = "checked_out" => Preceded(k, "checkout")
       /\ log[k].step = "recorded" => Preceded(k, "checked_out")

\* C19 witness: the second project went through all its steps.
C19_SecondProjectRecorded ==
  \E k \in 1..Len(log) : log[k] = Call(2, "recorded")

\* C21: what a run resolves is a function of the manifest alone, so two
\* runs on one manifest agree on it: the remote chosen for the i-th project
\* is the first remote of the name the project gives, and the k-th clone is
\* the k-th project's, from that remote's URL into the project's path.
C21_ResolutionDeterministic ==
  /\ \A i \in 1..Len(lookups) :
       lookups[i] = IF projects[i].remote = None THEN NoRemote
                    ELSE FindRemote(projects[i].remote)
  /\ \A k \in 1..Len(clones) :
       clones[k] = [project |-> k,
                    url |-> RepoUrl(FindRemote(projects[k].remote), projects[k]),
                    dst |-> projects[k].path]

\* C21 witness: two projects were cloned from a manifest that has two
\* remotes of one name and different fetch prefixes.
C21_ClonedWithDuplicateRemotes ==
  /\ Len(clones) = 2
  /\ Len(remotes) = 2
  /\ remotes[1].name = remotes[2].name
  /\ remotes[1].fetch # remotes[2].fetch

\* C22: no step, succeeding or failing, changes the project list or the
\* remote list of the manifest.
C22_ManifestNeverMutated ==
  [][/\ manifest'.project = manifest.project
     /\ manifest'.remote = manifest.remote]_vars

\* C22 witness: a step of the second project failed after the first
\* project went through the whole loop body.
C22_FailedAfterFirstProject ==
  /\ result = "GixCheckoutError"
  /\ completed = <<1>>

\* The fallible calls of the loop body, in the order of the code.
LoopCalls ==
  <<"create_dir_all", "url_parse", "prepare_clone", "fetch_then_checkout",
    "main_worktree", "find_default_remote">>

\* The fallible calls made before the loop, in the order of the code.
SetupCalls == <<"read_to_string", "from_str", "init_handler">>

\* The errors run_init can return.
InitError == LoadErrors \cup {"GixInterruptInitError"} \cup SyncErrors

\* C23: run_init returns Ok only when, for every project in manifest
\* order, all six calls of the loop body returned Ok; and once any call
\* has returned an error, run_init has returned an Err.
C23_OkOnlyIfAllCompleted ==
  /\ result = "Ok"
       => /\ Len(returns) = Len(SetupCalls) + Len(LoopCalls) * Len(projects)
          /\ \A i \in 1..Len(projects) : \A c \in 1..Len(LoopCalls) :
               returns[Len(SetupCalls) + Len(LoopCalls) * (i - 1) + c]
                 = Ret(i, LoopCalls[c], "ok")
  /\ (\E k \in 1..Len(returns) : returns[k].out # "ok")
       => Terminated /\ result \in InitError

\* C23 witness: a run over two projects returned Ok.
C23_OkWithTwoProjects ==
  result = "Ok" /\ Len(projects) = 2

\* The errors of the steps that follow the creation of the destination
\* directory and go up to the checkout.
AfterDirErrors ==
  {"GixUrlParseError", "GixCloneError", "GixFetchError", "GixCheckoutError"}

C25_HandlerOnceBeforeProjects ==
  /\ Cardinality({k \in 1..Len(returns) : returns[k].call = "init_handler"}) <= 1
  /\ \A k \in 1..Len(returns) :
       returns[k].call = "init_handler"
         => /\ k = 3
            /\ returns[1] = Ret(0, "read_to_string", "ok")
            /\ returns[2] = Ret(0, "from_str", "ok")
  /\ (lookups # <<>> \/ started # {} \/ dirs # {} \/ clones # <<>>)
       => /\ Len(returns) >= 3
          /\ returns[3] = Ret(0, "init_handler", "ok")
  /\ (\E k \in 1..Len(returns) : returns[k] = Ret(0, "init_handler", "permanent"))
       => /\ Terminated
          /\ result = "GixInterruptInitError"
          /\ lookups = <<>> /\ started = {} /\ dirs = {} /\ clones = <<>>

\* C25 witness: the handler failed to initialise for a manifest that
\* lists projects.
C25_HandlerFailedWithProjects ==
  /\ result = "GixInterruptInitError"
  /\ Len(projects) >= 1

\* ------------------------------------------------- the standalone main
\* main as a function of the manifest and of what its fallible calls
\* return. The calls are answered in the order they are made, by the answers
\* the calls of run_init got (returns). The tracing subscriber main installs
\* first is no part of the pipeline.
MainSetupCalls == <<"read_to_string", "from_str", "init_handler">>

MainLoopCalls ==
  <<"create_dir_all", "url_parse", "prepare_clone", "fetch_then_checkout",
    "main_worktree", "find_default_remote">>

\* manifest.remotes().into_iter().find(|remote| remote.name == name)
MainFindRemote(name) ==
  LET hits == {i \in 1..Len(remotes) : remotes[i].name = name}
  IN IF hits = {} THEN NoRemote
     ELSE remotes[CHOOSE i \in hits : \A j \in hits : i <= j]

\* (the URL with the ".git" suffix appended)
MainRepoUrlWithSuffix(remote, project) ==
  remote.fetch \o "/" \o project.name \o ".git"

\* format!("{}/{}", remote.fetch, project.name)
MainRepoUrl(remote, project) == remote.fetch \o "/" \o project.name

\* What main has done: the calls that returned, the remotes looked up, the
\* clones prepared, the directories created, and how it ended.
MainStart ==
  [trace |-> <<>>, lookups |-> <<>>, clones |-> <<>>, dirs |-> {},
   result |-> "running"]

RECURSIVE MainBody(_, _, _, _, _, _)
RECURSIVE MainLoop(_, _, _)

\* The c-th fallible call of the loop body for project i, answered by
\* answer k; an Err leaves main through `?`.
MainBody(i, k, c, e, url, dst) ==
  IF c > Len(MainLoopCalls) THEN MainLoop(i + 1, k, e)
  ELSE IF k > Len(returns) THEN e
  ELSE LET call == MainLoopCalls[c]
           out == returns[k].out
           e1 == [e EXCEPT
                    !.trace = Append(@, Ret(i, call, out)),
                    !.clones = IF call = "prepare_clone"
                                 THEN Append(@, [project |-> i, url |-> url,
                                                 dst |-> dst])
                                 ELSE @,
                    !.dirs = IF call = "create_dir_all" /\ out = "ok"
                               THEN @ \cup {dst} ELSE @]
       IN IF out = "ok" THEN MainBody(i, k + 1, c + 1, e1, url, dst)
          ELSE [e1 EXCEPT !.result = "Err"]

\* for project in manifest.projects(): the lookup and its unwraps, the URL,
\* the destination and its unwrap, then the calls of the body.
MainLoop(i, k, e) ==
  IF i > Len(projects) THEN [e EXCEPT !.result = "Ok"]
  ELSE LET project == projects[i]
           remote == IF project.remote = None THEN NoRemote
                     ELSE MainFindRemote(project.remote)
           e1 == [e EXCEPT !.lookups = Append(@, remote)]
       IN IF remote = NoRemote \/ project.path = None
            THEN [e1 EXCEPT !.result = "panic"]
            ELSE MainBody(i, k, 1, e1, MainRepoUrl(remote, project),
                          project.path)

RECURSIVE MainSetup(_, _)
\* The calls before the loop: read_to_string, from_str, init_handler.
MainSetup(c, e) ==
  IF c > Len(MainSetupCalls) THEN MainLoop(1, c, e)
  ELSE IF c > Len(returns) THEN e
  ELSE LET out == returns[c].out
           e1 == [e EXCEPT !.trace = Append(@, Ret(0, MainSetupCalls[c], out))]
       IN IF out = "ok" THEN MainSetup(c + 1, e1)
          ELSE [e1 EXCEPT !.result = "Err"]

MainRun == MainSetup(1, MainStart)

\* How run_init ended, as main's ending is told: Ok, an Err, or a panic.
Ending ==
  IF result \in InitError THEN "Err" ELSE result

\* C26: for every manifest and every way the fallible calls answer, main
\* makes the calls run_init made, in the same order for the same projects,
\* looks up the same remotes, prepares the same clones into the same
\* directories, and ends as run_init ended, at the same project and call.
C26_MainEquivalentToRunInit ==
  Terminated
    => MainRun = [trace |-> returns, lookups |-> lookups, clones |-> clones,
                  dirs |-> dirs, result |-> Ending]

\* C26 witness: run_init cloned the first project and failed in the fetch
\* of the second.
C26_FetchOfSecondProjectFailed ==
  /\ result = "GixFetchError"
  /\ idx = 2
  /\ completed = <<1>>

====
